---- MODULE Spec2Model ----
(***************************************************************************)
(* The CLI wrapper proxy of realtor-mvp (src/cli_wrapper_proxy.py): the    *)
(* CLIWrapperProxy object with its request counter, the prompt formatter,  *)
(* the environment filter, the subprocess bridge to the Node fallback      *)
(* wrapper, the two completion envelopes and the HTTP handlers.            *)
(*                                                                         *)
(* Strings are sequences of atoms.  An atom is a one-character string, or  *)
(* a literal of the source kept whole (an error message, an id prefix).    *)
(* Python's None and JavaScript's null/undefined are the value Null; a     *)
(* JSON value is a record [t, v] with t in "null", "str", "list".          *)
(***************************************************************************)
EXTENDS Integers, Sequences, FiniteSets, TLC

VARIABLES
    call_count,   \* proxy.call_count
    os_environ,   \* os.environ of the proxy process
    child_env,    \* env= handed to the last subprocess.run, or NoEnv
    op,           \* the last operation that ran
    request,      \* the body (or argument) of the last operation
    prompt,       \* the prompt _format_messages built for it, or Null
    invoked,      \* the candidates callWithFallback invoked, in order, with their outcome
    proc,         \* what subprocess.run did for it
    cli_response, \* what _run_cli_wrapper returned for it
    response,     \* the HTTP response of the last operation
    prev,         \* lengths and usage of the request before the last one
    demo,         \* the demo application's request in progress (realtor_mvp.py)
    handlers      \* create_* calls in progress, when their steps are told apart

vars == <<call_count, os_environ, child_env, op, request, prompt, invoked,
          proc, cli_response, response, prev, demo, handlers>>

---------------------------------------------------------------------------
(* Bounds of the model *)

MaxCalls == 2
MaxOut == 2
MaxMsgs == 2
MaxEnvVars == 2
MaxHandlers == 2

---------------------------------------------------------------------------
(* Values *)

Null == [t |-> "null", v |-> <<>>]
Str(s) == [t |-> "str", v |-> s]
List(l) == [t |-> "list", v |-> l]

\* dict.get(key, default): an absent key is held as Null
Get(field, default) == IF field.t = "null" THEN default ELSE field

\* JavaScript truthiness of a string-or-null value: null, undefined and '' are falsy
Truthy(x) == x.t = "list" \/ (x.t = "str" /\ Len(x.v) > 0)

\* JavaScript a || b
OrElse(a, b) == IF Truthy(a) THEN a ELSE b

\* Math.ceil(n / 4)
CeilDiv4(n) == (n + 3) \div 4

\* a string of n characters
RECURSIVE Chars(_)
Chars(n) == IF n = 0 THEN <<>> ELSE <<"o">> \o Chars(n - 1)

\* Python str(x) / f"{x}" of a JSON value
PyStr(x) ==
    CASE x.t = "str" -> x.v
      [] x.t = "list" -> <<"[">> \o x.v \o <<"]">>
      [] OTHER -> <<"None">>

---------------------------------------------------------------------------
(* _format_messages *)

\* str.upper() on the characters the model uses
UpperChar(c) ==
    CASE c = "u" -> "U" [] c = "s" -> "S" [] c = "e" -> "E" [] c = "r" -> "R"
      [] c = "a" -> "A" [] c = "i" -> "I" [] c = "h" -> "H"
      [] OTHER -> c

Upper(s) == [i \in 1..Len(s) |-> UpperChar(s[i])]

UserRole == <<"u", "s", "e", "r">>

\* f"{role}:\n{content}\n" of one message record
FormatLine(msg) ==
    LET role == Upper(Get(msg.role, Str(UserRole)).v)
        content == Get(msg.content, Str(<<>>)).v
    IN role \o <<":", "\n">> \o content \o <<"\n">>

\* "".join(lines): the lines run together with nothing between them
RECURSIVE JoinNoSeparator(_)
JoinNoSeparator(lines) ==
    IF Len(lines) = 0 THEN <<>>
    ELSE lines[1] \o JoinNoSeparator(Tail(lines))

\* "\n".join(lines)
RECURSIVE Join(_)
Join(lines) ==
    IF Len(lines) = 0 THEN <<>>
    ELSE IF Len(lines) = 1 THEN lines[1]
    ELSE lines[1] \o <<"\n">> \o Join(Tail(lines))

\* a str argument is iterated character by character, and a character has no .get
FormatRaises(messages) == messages.t = "str" /\ Len(messages.v) > 0

_format_messages(messages) ==
    IF messages.t = "str" THEN <<>>
    ELSE Join([i \in 1..Len(messages.v) |-> FormatLine(messages.v[i])])

---------------------------------------------------------------------------
(* _clean_env *)

MarkerA == <<"C", "L", "A", "U", "D", "E", "C", "O", "D", "E">>
MarkerB == <<"C", "L", "A", "U", "D", "E", "_", "C", "O", "D", "E">>

\* Python's  sub in s  on strings
Contains(sub, s) ==
    \E i \in 0..(Len(s) - Len(sub)) : SubSeq(s, i + 1, i + Len(sub)) = sub

\* del env[key]
DelKey(env, key) == [n \in (DOMAIN env) \ {key} |-> env[n]]

\* the loop over list(env.keys()), deleting the marked keys one at a time
RECURSIVE DeleteMarked(_, _)
DeleteMarked(env, keys) ==
    IF keys = {} THEN env
    ELSE LET key == CHOOSE k \in keys : TRUE
             next == IF Contains(MarkerA, key) \/ Contains(MarkerB, key)
                     THEN DelKey(env, key) ELSE env
         IN DeleteMarked(next, keys \ {key})

\* the filter with only the first marker tested
RECURSIVE DeleteMarkedA(_, _)
DeleteMarkedA(env, keys) ==
    IF keys = {} THEN env
    ELSE LET key == CHOOSE k \in keys : TRUE
             next == IF Contains(MarkerA, key) THEN DelKey(env, key) ELSE env
         IN DeleteMarkedA(next, keys \ {key})

_clean_env_one_marker(environ) == DeleteMarkedA(environ, DOMAIN environ)

\* os.environ.copy() is a new dict: the deletions are made in the copy
_clean_env(environ) == DeleteMarked(environ, DOMAIN environ)

\* environment variable names and values the model draws from
EnvNames == {
    <<"P", "A", "T", "H">>,
    <<"C", "L", "A", "U", "D", "E", "C", "O", "D", "E">>,
    <<"C", "L", "A", "U", "D", "E", "_", "C", "O", "D", "E", "_", "E", "N", "T", "R", "Y", "P", "O", "I", "N", "T">>,
    <<"M", "Y", "_", "C", "L", "A", "U", "D", "E", "C", "O", "D", "E", "_", "X">>,
    <<"C", "L", "A", "U", "D", "E", "_", "C", "O", "N", "F", "I", "G">>,
    <<"c", "l", "a", "u", "d", "e", "c", "o", "d", "e">>,
    <<"C", "O", "D", "E">> }

EnvValues == {<<"1">>, <<"x">>}

Envs ==
    UNION { [names -> EnvValues] :
            names \in {S \in SUBSET EnvNames : Cardinality(S) <= MaxEnvVars} }

\* the environment the proxy process runs in, started from inside an assistant session
ProxyEnv ==
    [n \in { <<"P", "A", "T", "H">>,
             <<"C", "L", "A", "U", "D", "E", "C", "O", "D", "E">> } |-> <<"1">>]

NoEnv == <<>>

---------------------------------------------------------------------------
(* callWithFallback of cli-wrapper.js: the fallback invoker *)

\* the candidate order with its first two entries exchanged
CandidatesSwapped == <<"gemini", "claude", "kimi", "codex">>

\* the candidate order the proxy passes
Candidates == <<"claude", "gemini", "kimi", "codex">>

NumCandidates == Len(Candidates)

\* the failure callWithFallback records for a candidate
FailureOf(tool) ==
    CASE tool = "claude" -> "claude failed"
      [] tool = "gemini" -> "gemini failed"
      [] tool = "kimi" -> "kimi failed"
      [] OTHER -> "codex failed"

\* What one candidate does when it is run: it fails (non-zero exit, timeout or
\* unparseable output), or it exits zero with an output.  An exit of zero with an
\* empty output is listed neither as a success nor as a failure; whether the
\* invoker takes it as a success is left open, so both are outcomes.
Failed == [ok |-> FALSE, out |-> <<>>]
Outcomes == {Failed} \cup {[ok |-> TRUE, out |-> Chars(n)] : n \in 0..MaxOut}

\* one outcome per candidate; what a candidate after the first success would have
\* done is never observed, so it is fixed to Failed
OutcomeFns ==
    {o \in [1..NumCandidates -> Outcomes] :
        \A i, j \in 1..NumCandidates : (i < j /\ o[i].ok) => o[j] = Failed}

AllFail == [i \in 1..NumCandidates |-> Failed]

\* the loop over the candidates, from candidate i on: each is invoked in turn, the
\* first success ends the loop; the loop gets no further than candidate `limit`
\* when the process is ended under it
RECURSIVE Fallback(_, _, _, _, _)
Fallback(cands, o, i, limit, acc) ==
    IF i > Len(cands) \/ i > limit THEN acc
    ELSE LET ran == Append(acc, [tool |-> cands[i], ok |-> o[i].ok, out |-> o[i].out])
         IN IF o[i].ok THEN ran ELSE Fallback(cands, o, i + 1, limit, ran)

\* the value callWithFallback resolves with after the invocations `ran`
FallbackResult(ran) ==
    IF Len(ran) > 0 /\ ran[Len(ran)].ok
    THEN [ok |-> TRUE, text |-> Str(ran[Len(ran)].out), errors |-> Null]
    ELSE [ok |-> FALSE, text |-> Null,
          errors |-> List([i \in 1..Len(ran) |-> FailureOf(ran[i].tool)])]

---------------------------------------------------------------------------
(* The Node program _run_cli_wrapper builds, and what the subprocess did *)

Usage(p, c, t) == [prompt_tokens |-> p, completion_tokens |-> c, total_tokens |-> t]

\* the response with the branches of  result.ok ? null : (...)  exchanged
NodeThenSwapped(promptStr, result) ==
    [ok |-> result.ok,
     text |-> OrElse(result.text, Null),
     error |-> IF result.ok THEN OrElse(result.errors, Str(<<"Unknown error">>))
               ELSE Null,
     usage |-> Usage(CeilDiv4(Len(promptStr)),
                     IF Truthy(result.text) THEN CeilDiv4(Len(result.text.v)) ELSE 0,
                     CeilDiv4(Len(promptStr) + Len(OrElse(result.text, Str(<<>>)).v)))]

\* .then(result => ...): the response printed for a resolved callWithFallback
NodeThen(promptStr, result) ==
    [ok |-> result.ok,
     text |-> OrElse(result.text, Null),
     error |-> IF result.ok THEN Null
               ELSE OrElse(result.errors, Str(<<"Unknown error">>)),
     usage |-> Usage(CeilDiv4(Len(promptStr)),
                     IF Truthy(result.text) THEN CeilDiv4(Len(result.text.v)) ELSE 0,
                     CeilDiv4(Len(promptStr) + Len(OrElse(result.text, Str(<<>>)).v)))]

\* .catch(err => ...): the response printed for a rejected callWithFallback
NodeCatch(promptStr, message) ==
    [ok |-> FALSE,
     text |-> Null,
     error |-> Str(message),
     usage |-> Usage(CeilDiv4(Len(promptStr)), 0, CeilDiv4(Len(promptStr)))]

\* A standard output: the line console.log(JSON.stringify(response)) printed
\* (json.loads gives the response back), or text json.loads cannot parse.
JsonLine(value) == [json |-> TRUE, value |-> value, raw |-> <<>>]
RawText(raw) == [json |-> FALSE, value |-> Null, raw |-> raw]

TimeoutMsg == "CLI wrapper timeout (300s)"
ParseMsg == "Failed to parse response: "
ExecMsg == "CLI wrapper execution failed"

RawStdouts == {<<>>, <<"l", "o", "g">>}
Stderrs == {<<>>, <<TimeoutMsg>>, <<ParseMsg, "l", "o", "g">>}
Rejections == {<<"b", "o", "o", "m">>}
OsErrors == {<<"n", "o", " ", "n", "o", "d", "e">>}

\* What happens around one subprocess.run: the kind of ending, the outcomes of the
\* candidates, how far the loop got when the process ended otherwise than by
\* printing its response, and what was on stdout and stderr then.
World(kind, o, cut, raw, err) == [kind |-> kind, o |-> o, cut |-> cut, raw |-> raw, err |-> err]

Worlds ==
    {World("answered", o, NumCandidates, <<>>, <<>>) : o \in OutcomeFns}
    \cup {World("rejected", AllFail, c, <<>>, e) : c \in 0..NumCandidates, e \in Rejections}
    \cup {World("garbled", AllFail, c, r, <<>>) : c \in 0..NumCandidates, r \in RawStdouts}
    \cup {World("nonzero", AllFail, c, <<>>, e) : c \in 0..NumCandidates, e \in Stderrs}
    \cup {World("timeout", AllFail, c, r, <<>>) : c \in 0..NumCandidates, r \in RawStdouts}
    \cup {World("oserror", AllFail, 0, <<>>, e) : e \in OsErrors}

\* the candidates invoked in that world
Ran(w) == Fallback(Candidates, w.o, 1, w.cut, <<>>)

\* subprocess.run([node, '-e', node_code], ...): how it ended, with its output
Proc(kind, stdout, stderr, exc) ==
    [kind |-> kind, stdout |-> stdout, stderr |-> stderr, exc |-> exc]

NoProc == Proc("none", RawText(<<>>), <<>>, <<>>)

Subprocess(promptStr, w) ==
    CASE w.kind = "answered" ->
            Proc("exit0", JsonLine(NodeThen(promptStr, FallbackResult(Ran(w)))), <<>>, <<>>)
      [] w.kind = "rejected" ->
            Proc("exit0", JsonLine(NodeCatch(promptStr, w.err)), <<>>, <<>>)
      [] w.kind = "garbled" -> Proc("exit0", RawText(w.raw), <<>>, <<>>)
      [] w.kind = "nonzero" -> Proc("nonzero", RawText(<<>>), w.err, <<>>)
      [] w.kind = "timeout" -> Proc("timeout", RawText(w.raw), <<>>, <<>>)
      [] OTHER -> Proc("oserror", RawText(<<>>), <<>>, w.err)

ZeroUsage == Usage(0, 0, 0)

Failure(message) ==
    [ok |-> FALSE, text |-> Null, error |-> Str(message), usage |-> ZeroUsage]

\* _run_cli_wrapper with the output captured before the timeout put in the message
_run_cli_wrapper_salvaging(p) ==
    CASE p.kind = "exit0" ->
            IF p.stdout.json THEN p.stdout.value
            ELSE Failure(<<ParseMsg>> \o p.stdout.raw)
      [] p.kind = "nonzero" ->
            Failure(IF Len(p.stderr) > 0 THEN p.stderr ELSE <<ExecMsg>>)
      [] p.kind = "timeout" -> Failure(<<TimeoutMsg>> \o p.stdout.raw)
      [] OTHER -> Failure(p.exc)

\* _run_cli_wrapper, from the return of subprocess.run on
_run_cli_wrapper(p) ==
    CASE p.kind = "exit0" ->
            IF p.stdout.json THEN p.stdout.value
            ELSE Failure(<<ParseMsg>> \o p.stdout.raw)
      [] p.kind = "nonzero" ->
            Failure(IF Len(p.stderr) > 0 THEN p.stderr ELSE <<ExecMsg>>)
      [] p.kind = "timeout" -> Failure(<<TimeoutMsg>>)
      [] OTHER -> Failure(p.exc)

---------------------------------------------------------------------------
(* create_completion, create_chat_completion and the HTTP handlers *)

\* from the formatted prompt to the return of _run_cli_wrapper
Invocation(messages, w) ==
    LET promptStr == _format_messages(messages)
        p == Subprocess(promptStr, w)
    IN [prompt |-> promptStr, ran |-> Ran(w), proc |-> p, cli |-> _run_cli_wrapper(p)]

\* the text or content of the one choice
ChoiceText(cli) ==
    IF cli.ok THEN cli.text ELSE Str(<<"Error: ">> \o PyStr(cli.error))

FinishReason(cli) == IF cli.ok THEN "stop" ELSE "error"

\* create_completion from self.call_count += 1 on; `count` is the counter before
\* the call.  The creation time stamp is left out.
create_completion(count, messages, model, w) ==
    LET n == count + 1
        inv == Invocation(messages, w)
    IN [call_count |-> n, inv |-> inv,
        envelope |-> [id |-> <<"clawwork-", n>>, object |-> "text_completion",
                      model |-> model, text |-> ChoiceText(inv.cli),
                      finish_reason |-> FinishReason(inv.cli), usage |-> inv.cli.usage]]

\* create_chat_completion with the id formatted from the counter before its increment
create_chat_completion_stale_id(count, messages, model, w) ==
    LET n == count + 1
        inv == Invocation(messages, w)
    IN [call_count |-> n, inv |-> inv,
        envelope |-> [id |-> <<"chatcmpl-", count>>, object |-> "chat.completion",
                      model |-> model, text |-> ChoiceText(inv.cli),
                      finish_reason |-> FinishReason(inv.cli), usage |-> inv.cli.usage]]

create_chat_completion(count, messages, model, w) ==
    LET n == count + 1
        inv == Invocation(messages, w)
    IN [call_count |-> n, inv |-> inv,
        envelope |-> [id |-> <<"chatcmpl-", n>>, object |-> "chat.completion",
                      model |-> model, text |-> ChoiceText(inv.cli),
                      finish_reason |-> FinishReason(inv.cli), usage |-> inv.cli.usage]]

Msg(role, content) == [role |-> role, content |-> content]
Body(model, messages, promptField) ==
    [model |-> model, messages |-> messages, prompt |-> promptField]

Hi == <<"h", "i">>
DefaultModel == Str(<<"claude">>)

\* request bodies of POST /v1/chat/completions
ChatBodies == {
    Body(Null, Null, Null),
    Body(Str(<<"claude">>), List(<<Msg(Str(UserRole), Str(Hi))>>), Null),
    Body(Str(<<"kimi">>), List(<<Msg(Null, Null), Msg(Str(<<"a", "i">>), Str(Hi))>>), Null) }

\* request bodies of POST /v1/completions
CompletionBodies == {
    Body(Null, Null, Null),
    Body(Str(<<"claude">>), Null, List(<<Msg(Str(UserRole), Str(Hi))>>)),
    Body(Null, Null, Str(Hi)) }

NoCli == [ok |-> FALSE, text |-> Null, error |-> Null, usage |-> ZeroUsage]
NoResponse == [status |-> 0, body |-> Null, detail |-> <<>>]
Ok200(body) == [status |-> 200, body |-> body, detail |-> <<>>]
Error500(detail) == [status |-> 500, body |-> Null, detail |-> detail]
AttributeError == <<"'str' object has no attribute 'get'">>

\* the length of the text the tools produced for the last request
OutLen(ran) == IF Len(ran) > 0 /\ ran[Len(ran)].ok THEN Len(ran[Len(ran)].out) ELSE 0

\* lengths and usage of the last request, kept for the comparison with the next one
Remembered ==
    IF op \in {"completions", "chat"} /\ response.status = 200
    THEN <<[plen |-> Len(prompt.v), tlen |-> OutLen(invoked), usage |-> response.body.usage]>>
    ELSE prev

\* no request of the demo application, and no create_* call told apart in steps
NoDemo ==
    [pc |-> "idle", template |-> "none", data |-> Null, prompt |-> <<>>,
     calls |-> <<>>, facade |-> [kind |-> "none", status |-> 0, body |-> Null],
     direct |-> [kind |-> "none", rc |-> 0, stdout |-> <<>>],
     result |-> Null, exc |-> <<>>, response |-> [status |-> 0, body |-> Null, detail |-> <<>>]]
NoHandlers == <<>>

\* the handler returns the envelope r.envelope of the call r
Returned(r) ==
    /\ call_count' = r.call_count
    /\ prompt' = Str(r.inv.prompt)
    /\ invoked' = r.inv.ran
    /\ proc' = r.inv.proc
    /\ cli_response' = r.inv.cli
    /\ child_env' = <<_clean_env(os_environ)>>
    /\ response' = Ok200(r.envelope)

\* _format_messages raised after self.call_count += 1: the handler's except
\* clause answers 500 with the exception text
Raised ==
    /\ call_count' = call_count + 1
    /\ prompt' = Null
    /\ invoked' = <<>>
    /\ proc' = NoProc
    /\ cli_response' = NoCli
    /\ child_env' = NoEnv
    /\ response' = Error500(AttributeError)

\* POST /v1/completions
Completions(body, w) ==
    LET messages == Get(body.prompt, List(<<>>))
        model == Get(body.model, DefaultModel)
    IN /\ call_count < MaxCalls
       /\ op' = "completions"
       /\ request' = body
       /\ prev' = Remembered
       /\ IF FormatRaises(messages) THEN Raised
          ELSE Returned(create_completion(call_count, messages, model, w))
       /\ UNCHANGED <<os_environ, demo, handlers>>

\* POST /v1/chat/completions
ChatCompletions(body, w) ==
    LET messages == Get(body.messages, List(<<>>))
        model == Get(body.model, DefaultModel)
    IN /\ call_count < MaxCalls
       /\ op' = "chat"
       /\ request' = body
       /\ prev' = Remembered
       /\ IF FormatRaises(messages) THEN Raised
          ELSE Returned(create_chat_completion(call_count, messages, model, w))
       /\ UNCHANGED <<os_environ, demo, handlers>>

\* GET /health
Health ==
    /\ op' = "health"
    /\ request' = Null
    /\ prev' = Remembered
    /\ prompt' = Null
    /\ invoked' = <<>>
    /\ proc' = NoProc
    /\ cli_response' = NoCli
    /\ child_env' = NoEnv
    /\ response' = Ok200([status |-> "healthy", calls |-> call_count])
    /\ UNCHANGED <<call_count, os_environ, demo, handlers>>

\* CLIWrapperProxy() in a process started with the environment ProxyEnv
Init ==
    /\ call_count = 0
    /\ os_environ = ProxyEnv
    /\ child_env = NoEnv
    /\ op = "init"
    /\ request = Null
    /\ prompt = Null
    /\ invoked = <<>>
    /\ proc = NoProc
    /\ cli_response = NoCli
    /\ response = NoResponse
    /\ prev = <<>>
    /\ demo = NoDemo
    /\ handlers = NoHandlers

Next ==
    \/ \E body \in CompletionBodies, w \in Worlds : Completions(body, w)
    \/ \E body \in ChatBodies, w \in Worlds : ChatCompletions(body, w)
    \/ Health

Spec == Init /\ [][Next]_vars

---------------------------------------------------------------------------
(* _format_messages on its own: every list of up to MaxMsgs message records *)

Roles == {Null, Str(UserRole), Str(<<"A", "i">>)}
Contents == {Null, Str(<<>>), Str(Hi)}
Messages == {Msg(r, c) : r \in Roles, c \in Contents}

MessageLists == UNION {[1..n -> Messages] : n \in 0..MaxMsgs}

InitFormat ==
    /\ call_count = 0
    /\ os_environ = ProxyEnv
    /\ child_env = NoEnv
    /\ op = "init"
    /\ request \in {List(l) : l \in MessageLists}
    /\ prompt = Null
    /\ invoked = <<>>
    /\ proc = NoProc
    /\ cli_response = NoCli
    /\ response = NoResponse
    /\ prev = <<>>
    /\ demo = NoDemo
    /\ handlers = NoHandlers

FormatCall ==
    /\ op = "init"
    /\ op' = "format"
    /\ prompt' = Str(_format_messages(request))
    /\ UNCHANGED <<call_count, os_environ, child_env, request, invoked, proc,
                   cli_response, response, prev, demo, handlers>>

SpecFormat == InitFormat /\ [][FormatCall]_vars

---------------------------------------------------------------------------
(* _clean_env on its own: every environment of up to MaxEnvVars variables *)

InitEnv ==
    /\ call_count = 0
    /\ os_environ \in Envs
    /\ child_env = NoEnv
    /\ op = "init"
    /\ request = Null
    /\ prompt = Null
    /\ invoked = <<>>
    /\ proc = NoProc
    /\ cli_response = NoCli
    /\ response = NoResponse
    /\ prev = <<>>
    /\ demo = NoDemo
    /\ handlers = NoHandlers

CleanEnvCall ==
    /\ op = "init"
    /\ op' = "clean_env"
    /\ child_env' = <<_clean_env(os_environ)>>
    /\ UNCHANGED <<call_count, os_environ, request, prompt, invoked, proc,
                   cli_response, response, prev, demo, handlers>>

SpecEnv == InitEnv /\ [][CleanEnvCall]_vars

---------------------------------------------------------------------------
(* The claims *)

\* the last operation returned a completion envelope
Enveloped == op \in {"completions", "chat"} /\ response.status = 200

\* callWithFallback ran to its end and the Node program printed what it resolved with
Resolved == Enveloped /\ (cli_response.ok \/ cli_response.error.t = "list")

\* C1: in one run of the fallback chain over [claude, gemini, kimi, codex] the
\* candidates invoked are a prefix of that list in its order, no candidate is
\* invoked after one that succeeded, and a chain that ran to its end stopped at
\* the first success or, with none, after the fourth candidate.
C1_PrefixToFirstSuccess ==
    /\ Len(invoked) <= 4
    /\ \A i \in 1..Len(invoked) :
          invoked[i].tool = <<"claude", "gemini", "kimi", "codex">>[i]
    /\ \A i \in 1..(Len(invoked) - 1) : ~invoked[i].ok
    /\ Resolved =>
          /\ Len(invoked) >= 1
          /\ invoked[Len(invoked)].ok \/ Len(invoked) = 4
          /\ cli_response.ok <=> invoked[Len(invoked)].ok

\* C1 witness: claude failed, gemini succeeded, and kimi and codex were not run
C1_Witness ==
    /\ Resolved
    /\ Len(invoked) = 2
    /\ ~invoked[1].ok
    /\ invoked[2].ok
    /\ cli_response.ok

AllCandidatesFailed ==
    /\ Len(invoked) = 4
    /\ \A i \in 1..4 : ~invoked[i].ok

\* C2: when every candidate failed the result has ok = false, text = null and an
\* error that is not null; the error the Node program prints then is the list of
\* the four candidates' failures, or the message callWithFallback rejected with;
\* and no result is ok unless a candidate succeeded.
C2_AllFailIsError ==
    Enveloped =>
        /\ cli_response.ok => \E i \in 1..Len(invoked) : invoked[i].ok
        /\ AllCandidatesFailed =>
              /\ cli_response.ok = FALSE
              /\ cli_response.text.t = "null"
              /\ cli_response.error.t # "null"
              /\ response.body.finish_reason = "error"
        /\ (AllCandidatesFailed /\ proc.kind = "exit0" /\ proc.stdout.json) =>
              \/ cli_response.error =
                    List(<<"claude failed", "gemini failed", "kimi failed", "codex failed">>)
              \/ cli_response.error = Str(<<"b", "o", "o", "m">>)

\* C2 witness: all four candidates failed and the aggregated failures came back
C2_Witness ==
    /\ Enveloped
    /\ AllCandidatesFailed
    /\ cli_response.error.t = "list"
    /\ Len(cli_response.error.v) = 4

StartsWith(s, prefix) == Len(s) >= Len(prefix) /\ SubSeq(s, 1, Len(prefix)) = prefix

C4_TotalIsSum ==
    Enveloped =>
        response.body.usage.total_tokens =
            response.body.usage.prompt_tokens + response.body.usage.completion_tokens

UsageLeq(a, b) ==
    /\ a.prompt_tokens <= b.prompt_tokens
    /\ a.completion_tokens <= b.completion_tokens
    /\ a.total_tokens <= b.total_tokens

LengthsLeq(a, b) == a.plen <= b.plen /\ a.tlen <= b.tlen

\* C5: of two requests, the one with the shorter (or equal) prompt and output
\* reports token counts that are each no larger, whatever the outcome of either.
C5_UsageMonotone ==
    (Enveloped /\ Len(prev) = 1) =>
        LET a == prev[1]
            b == [plen |-> Len(prompt.v), tlen |-> OutLen(invoked),
                  usage |-> response.body.usage]
        IN /\ LengthsLeq(a, b) => UsageLeq(a.usage, b.usage)
           /\ LengthsLeq(b, a) => UsageLeq(b.usage, a.usage)

\* what the claim expects a role to be rendered as
RenderedRole(role) ==
    CASE role = Null -> <<"U", "S", "E", "R">>
      [] role = Str(<<"u", "s", "e", "r">>) -> <<"U", "S", "E", "R">>
      [] OTHER -> <<"A", "I">>

RenderedContent(content) == IF content = Null THEN <<>> ELSE content.v

\* the number of characters message m takes: its role, ":" and a line end, its
\* content and a line end
Extent(m) == Len(RenderedRole(m.role)) + 2 + Len(RenderedContent(m.content)) + 1

\* where message i starts: after the messages before it and one line end each
RECURSIVE StartOf(_, _)
StartOf(msgs, i) ==
    IF i = 1 THEN 0 ELSE StartOf(msgs, i - 1) + Extent(msgs[i - 1]) + 1

\* C6: the string _format_messages returns holds, for message i and in the order
\* of the list, the upper-cased role (USER when there is none), ":" and a line
\* end, the content (empty when there is none) and a line end; a further line
\* end, so a blank line, stands between consecutive messages; nothing else is
\* in the string, and the empty list gives the empty string.
C6_FormatMessages ==
    op = "format" =>
        LET msgs == request.v
            n == Len(msgs)
            p == prompt.v
        IN /\ n = 0 => p = <<>>
           /\ Len(p) = IF n = 0 THEN 0 ELSE StartOf(msgs, n) + Extent(msgs[n])
           /\ \A i \in 1..n :
                 LET at == StartOf(msgs, i)
                     r == RenderedRole(msgs[i].role)
                     c == RenderedContent(msgs[i].content)
                 IN /\ SubSeq(p, at + 1, at + Len(r)) = r
                    /\ p[at + Len(r) + 1] = ":"
                    /\ p[at + Len(r) + 2] = "\n"
                    /\ SubSeq(p, at + Len(r) + 3, at + Len(r) + 2 + Len(c)) = c
                    /\ p[at + Extent(msgs[i])] = "\n"
                    /\ i < n => p[at + Extent(msgs[i]) + 1] = "\n"

\* C6 witness: two messages, the first with neither role nor content, the second
\* with a mixed-case role and a content, formatted with a blank line between
C6_Witness ==
    /\ op = "format"
    /\ Len(request.v) = 2
    /\ request.v[1] = Msg(Null, Null)
    /\ request.v[2] = Msg(Str(<<"A", "i">>), Str(<<"h", "i">>))
    /\ prompt.v = <<"U", "S", "E", "R", ":", "\n", "\n", "\n",
                    "A", "I", ":", "\n", "h", "i", "\n">>

\* C7: call_count starts at 0; a call of create_completion or
\* create_chat_completion adds exactly 1 to it and no other step changes it; the
\* id of the envelope is "clawwork-<n>" or "chatcmpl-<n>" with n the counter
\* after that call's own increment; GET /health reports the counter and leaves it.
C7_CounterAndIds ==
    /\ call_count = 0
    /\ [][ /\ op' \in {"completions", "chat"} => call_count' = call_count + 1
           /\ op' \notin {"completions", "chat"} => call_count' = call_count
           /\ (op' = "completions" /\ response'.status = 200) =>
                 response'.body.id = <<"clawwork-", call_count + 1>>
           /\ (op' = "chat" /\ response'.status = 200) =>
                 response'.body.id = <<"chatcmpl-", call_count + 1>>
           /\ op' = "health" => response'.body.calls = call_count ]_vars

\* C7 witness: a chat completion served as the second request after a legacy
\* completion, with the id chatcmpl-2
C7_Witness ==
    /\ op = "chat"
    /\ response.status = 200
    /\ call_count = 2
    /\ response.body.id = <<"chatcmpl-", 2>>
    /\ Len(prev) = 1

\* the names of EnvNames that contain CLAUDECODE or CLAUDE_CODE
MarkedNames == {
    <<"C", "L", "A", "U", "D", "E", "C", "O", "D", "E">>,
    <<"C", "L", "A", "U", "D", "E", "_", "C", "O", "D", "E", "_",
      "E", "N", "T", "R", "Y", "P", "O", "I", "N", "T">>,
    <<"M", "Y", "_", "C", "L", "A", "U", "D", "E", "C", "O", "D", "E", "_", "X">> }

\* C8: the map _clean_env returns has none of the variables whose name contains
\* CLAUDECODE or CLAUDE_CODE, has every other variable of the process
\* environment with its value, and the process environment is not changed.
C8_CleanEnv ==
    /\ [](op = "clean_env" =>
            /\ Len(child_env) = 1
            /\ DOMAIN child_env[1] = (DOMAIN os_environ) \ MarkedNames
            /\ \A n \in DOMAIN child_env[1] : child_env[1][n] = os_environ[n])
    /\ [][os_environ' = os_environ]_vars

\* C8 witness: an environment with CLAUDE_CODE_ENTRYPOINT and PATH, filtered to
\* PATH alone
C8_Witness ==
    /\ op = "clean_env"
    /\ DOMAIN os_environ =
          { <<"P", "A", "T", "H">>,
            <<"C", "L", "A", "U", "D", "E", "_", "C", "O", "D", "E", "_",
              "E", "N", "T", "R", "Y", "P", "O", "I", "N", "T">> }
    /\ DOMAIN child_env[1] = { <<"P", "A", "T", "H">> }

\* the error _run_cli_wrapper gives for each kind of failed subprocess
ParseFailureError(stdout) == _run_cli_wrapper(Proc("exit0", RawText(stdout), <<>>, <<>>)).error
NonZeroExitError(stderr) == _run_cli_wrapper(Proc("nonzero", RawText(<<>>), stderr, <<>>)).error
TimeoutError == _run_cli_wrapper(Proc("timeout", RawText(<<>>), <<>>, <<>>)).error

\* C9: the error of a request whose subprocess failed in one of the three ways
\* (unparseable output of an exit 0, non-zero exit, timeout) is never the error
\* a failure of another of the three kinds gives, whatever stdout and stderr hold.
C9_DistinctErrors ==
    /\ (Enveloped /\ proc.kind = "exit0" /\ ~proc.stdout.json) =>
          /\ cli_response.ok = FALSE
          /\ cli_response.error # TimeoutError
          /\ \A e \in Stderrs : cli_response.error # NonZeroExitError(e)
    /\ (Enveloped /\ proc.kind = "nonzero") =>
          /\ cli_response.error # TimeoutError
          /\ \A r \in RawStdouts : cli_response.error # ParseFailureError(r)
    /\ (Enveloped /\ proc.kind = "timeout") =>
          /\ \A e \in Stderrs : cli_response.error # NonZeroExitError(e)
          /\ \A r \in RawStdouts : cli_response.error # ParseFailureError(r)

Atoms(s) == {s[i] : i \in 1..Len(s)}

\* C10: when the wait for the subprocess times out the result is ok = false,
\* text = null, the timeout error and a usage of zeros, the envelope carries
\* "Error: " and that message with finish_reason "error", and nothing the
\* subprocess had written appears in the result or in the envelope.
C10_TimeoutNoSalvage ==
    (Enveloped /\ proc.kind = "timeout") =>
        /\ cli_response =
              [ok |-> FALSE, text |-> Null,
               error |-> Str(<<"CLI wrapper timeout (300s)">>),
               usage |-> [prompt_tokens |-> 0, completion_tokens |-> 0, total_tokens |-> 0]]
        /\ response.body.text = Str(<<"Error: ", "CLI wrapper timeout (300s)">>)
        /\ response.body.finish_reason = "error"
        /\ Atoms(proc.stdout.raw) \cap Atoms(cli_response.error.v) = {}
        /\ Atoms(proc.stdout.raw) \cap Atoms(response.body.text.v) = {}

\* C10 witness: the subprocess timed out with output already written, after two
\* candidates had been run
C10_Witness ==
    /\ Enveloped
    /\ proc.kind = "timeout"
    /\ Len(proc.stdout.raw) > 0
    /\ Len(invoked) = 2
    /\ response.body.finish_reason = "error"

---------------------------------------------------------------------------
(* The demo application (src/realtor_mvp.py): the three prompt templates *)

Num(n) == [t |-> "num", v |-> n]
Dict(d) == [t |-> "dict", v |-> d]

DigitChars == <<"0", "1", "2", "3", "4", "5", "6", "7", "8", "9">>

\* str(n) of a natural number
RECURSIVE Digits(_)
Digits(n) ==
    IF n < 10 THEN <<DigitChars[n + 1]>>
    ELSE Digits(n \div 10) \o <<DigitChars[(n % 10) + 1]>>

\* the thousands separators of the format specification ","
RECURSIVE Grouped(_)
Grouped(ds) ==
    IF Len(ds) <= 3 THEN ds
    ELSE Grouped(SubSeq(ds, 1, Len(ds) - 3)) \o <<",">> \o SubSeq(ds, Len(ds) - 2, Len(ds))

\* f"{x}": str(x) of a field value
FStr(x) ==
    CASE x.t = "num" -> Digits(x.v)
      [] x.t = "str" -> x.v
      [] OTHER -> <<"None">>

NA == Str(<<"N/A">>)

\* the result of evaluating a piece of an f-string: its text, or the exception raised
Text(s) == [raised |-> FALSE, text |-> s, exc |-> <<>>]
Raise(e) == [raised |-> TRUE, text |-> <<>>, exc |-> e]

FormatCodeError == <<"Unknown format code 'f' for object of type 'str'">>

\* f"{x:,.0f}": a number is written with thousands separators and no decimals;
\* a str does not take the format code f
Money(x) == IF x.t = "num" THEN Text(Grouped(Digits(x.v))) ELSE Raise(FormatCodeError)

\* comp['key']: an absent key raises KeyError, whose text is the quoted key
Item(field, key) == IF field.t = "null" THEN Raise(<<"'", key, "'">>) ELSE Text(FStr(field))

\* the pieces of an f-string evaluated from left to right: the first exception ends it
RECURSIVE Pieces(_)
Pieces(ps) ==
    IF Len(ps) = 0 THEN Text(<<>>)
    ELSE IF ps[1].raised THEN ps[1]
    ELSE LET rest == Pieces(Tail(ps))
         IN IF rest.raised THEN rest ELSE Text(ps[1].text \o rest.text)

Field(x) == Text(FStr(Get(x, NA)))

\* the prompt of generate_description
DescriptionPrompt(d) ==
    Pieces(<<
        Text(<<"You are a professional real estate copywriter. Write a compelling MLS listing description.\n\nProperty Details:\n">>),
        Text(<<"- Address: ">>), Field(d.address),
        Text(<<"\n- Bedrooms: ">>), Field(d.bedrooms),
        Text(<<"\n- Bathrooms: ">>), Field(d.bathrooms),
        Text(<<"\n- Square Feet: ">>), Field(d.sqft),
        Text(<<"\n- Price: $">>), Money(Get(d.price, NA)),
        Text(<<"\n- Year Built: ">>), Field(d.year_built),
        Text(<<"\n- Lot Size: ">>), Field(d.lot_size),
        Text(<<"\n- Features: ">>), Field(d.features),
        Text(<<"\n- Condition: ">>), Field(d.condition),
        Text(<<"\n- Neighborhood: ">>), Field(d.neighborhood),
        Text(<<"\n\nWrite a captivating 3-4 paragraph listing description that:\n1. Opens with an engaging hook\n2. Highlights key features and benefits\n3. Paints a picture of lifestyle\n4. Creates urgency/appeal\n\nMake it persuasive, professional, and perfect for MLS.">>) >>)

\* one line of comparables_text
ComparableLine(comp) ==
    Pieces(<<
        Text(<<"- ">>), Item(comp.address, "address"),
        Text(<<": $">>),
        IF comp.price.t = "null" THEN Raise(<<"'", "price", "'">>) ELSE Money(comp.price),
        Text(<<" (">>), Item(comp.sqft, "sqft"),
        Text(<<" sqft, ">>), Item(comp.beds, "beds"),
        Text(<<" bed, ">>), Item(comp.baths, "baths"),
        Text(<<" bath)">>) >>)

\* "\n".join of the lines of the comparables, the first exception ending the comprehension
RECURSIVE ComparablesText(_)
ComparablesText(comps) ==
    IF Len(comps) = 0 THEN Text(<<>>)
    ELSE LET line == ComparableLine(comps[1])
         IN IF line.raised THEN line
            ELSE IF Len(comps) = 1 THEN line
            ELSE Pieces(<<line, Text(<<"\n">>), ComparablesText(Tail(comps))>>)

\* the prompt of generate_cma
CmaPrompt(comps) ==
    Pieces(<<
        Text(<<"You are a professional real estate appraiser. Analyze these comparable sales and provide a market analysis report.\n\nCOMPARABLE SALES:\n">>),
        ComparablesText(comps),
        Text(<<"\n\nProvide a brief CMA report that includes:\n1. Average Price Per Square Foot\n2. Market Trends (up/down/stable)\n3. Recommended Price Range (with reasoning)\n4. Key Market Factors\n5. Investment Opportunity Assessment\n\nMake it professional and suitable for MLS presentation.">>) >>)

\* the prompt of generate_followup_email
EmailPrompt(agent_name, b) ==
    Pieces(<<
        Text(<<"You are a professional real estate agent. Write a personalized follow-up email.\n\nAgent Name: ">>),
        Text(FStr(agent_name)),
        Text(<<"\nBuyer Profile:\n- Interests: ">>), Field(b.interests),
        Text(<<"\n- Budget: $">>), Money(Get(b.budget, NA)),
        Text(<<"\n- Timeline: ">>), Field(b.timeline),
        Text(<<"\n- Previous Inquiries: ">>), Field(b.previous_inquiries),
        Text(<<"\n\nWrite a warm, personalized follow-up email that:\n1. References previous interaction\n2. Shows genuine interest\n3. Offers value (market insights, new listings)\n4. Includes soft call-to-action\n5. Professional but conversational tone\n\nMake it compelling and personal.">>) >>)

---------------------------------------------------------------------------
(* The demo application: call_claude and the three endpoints *)

MainSt == <<"1", " ", "M", "a", "i", "n", " ", "S", "t">>

FullListing ==
    [address |-> Str(MainSt), bedrooms |-> Num(3), bathrooms |-> Num(2),
     sqft |-> Num(1500), price |-> Num(450000), year_built |-> Num(1990),
     lot_size |-> Str(<<"0.25 acres">>), features |-> Str(<<"pool">>),
     condition |-> Str(<<"good">>), neighborhood |-> Str(<<"downtown">>)]

EmptyListing ==
    [address |-> Null, bedrooms |-> Null, bathrooms |-> Null, sqft |-> Null,
     price |-> Null, year_built |-> Null, lot_size |-> Null, features |-> Null,
     condition |-> Null, neighborhood |-> Null]

FullComp ==
    [address |-> Str(MainSt), price |-> Num(1250000), sqft |-> Num(2000),
     beds |-> Num(3), baths |-> Num(2)]

FullProfile ==
    [interests |-> Str(<<"condos">>), budget |-> Num(500000),
     timeline |-> Str(<<"3 months">>), previous_inquiries |-> Str(<<"none">>)]

EmptyProfile ==
    [interests |-> Null, budget |-> Null, timeline |-> Null, previous_inquiries |-> Null]

DemoRequest(template, data) == [template |-> template, data |-> data]

\* request bodies of the three endpoints, with fields present and omitted
DemoRequests ==
    {DemoRequest("description", d) :
        d \in {FullListing, EmptyListing,
               [FullListing EXCEPT !.price = Null],
               [FullListing EXCEPT !.address = Null, !.features = Null],
               [EmptyListing EXCEPT !.price = Num(450000)]}}
    \cup {DemoRequest("cma", [comparable_sales |-> c]) :
        c \in {Null, List(<<FullComp>>),
               List(<<FullComp, [FullComp EXCEPT !.sqft = Null]>>),
               List(<<[FullComp EXCEPT !.price = Null]>>)}}
    \cup {DemoRequest("email", [agent_name |-> a, buyer_profile |-> b]) :
        a \in {Null, Str(<<"Ann">>)},
        b \in {Null, Dict(FullProfile), Dict([FullProfile EXCEPT !.budget = Null]),
               Dict([EmptyProfile EXCEPT !.budget = Num(500000)])}}

\* the prompt the endpoint's generate_* function builds, or the exception it raises
BuildPrompt(req) ==
    CASE req.template = "description" -> DescriptionPrompt(req.data)
      [] req.template = "cma" ->
            CmaPrompt(Get(req.data.comparable_sales, List(<<>>)).v)
      [] OTHER ->
            EmailPrompt(Get(req.data.agent_name, Str(<<"Agent">>)),
                        Get(req.data.buyer_profile, Dict(EmptyProfile)).v)

\* the key of the JSON answer and the prefix of the HTTPException detail
AnswerKey(template) ==
    CASE template = "description" -> "description"
      [] template = "cma" -> "cma"
      [] OTHER -> "email"

FailurePrefix(template) ==
    CASE template = "description" -> "Failed to generate description: "
      [] template = "cma" -> "Failed to generate CMA: "
      [] OTHER -> "Failed to generate email: "

Unreachable == "Unable to reach Claude API"

\* What client.post gives back: a response of the Facade, or an exception (no
\* connection, the 60 s timeout).  A 200 of the Facade carries the envelope
\* create_chat_completion built for the one user message; the Facade's counter
\* is not read by the demo application.
HttpAnswer(status, body) == [kind |-> "http", status |-> status, body |-> body]
PostFailed == [kind |-> "exception", status |-> 0, body |-> Null]

FacadeAnswers(promptStr) ==
    {HttpAnswer(200, create_chat_completion(0, List(<<Msg(Str(UserRole), Str(promptStr))>>),
                                            Str(<<"claude">>), w).envelope) : w \in Worlds}
    \cup {HttpAnswer(500, Null), PostFailed}

\* str.strip()
IsSpace(c) == c \in {" ", "\n", "\t"}

RECURSIVE Strip(_)
Strip(str) ==
    IF Len(str) = 0 THEN str
    ELSE IF IsSpace(str[1]) THEN Strip(Tail(str))
    ELSE IF IsSpace(str[Len(str)]) THEN Strip(SubSeq(str, 1, Len(str) - 1))
    ELSE str

\* What subprocess.run(["claude", "message", prompt], timeout=60) gives back
Exited(rc, stdout) == [kind |-> "exit", rc |-> rc, stdout |-> stdout]
RunFailed == [kind |-> "exception", rc |-> 0, stdout |-> <<>>]

DirectOutcomes ==
    {Exited(0, <<" ", "o", "k", "\n">>), Exited(0, <<>>), Exited(1, <<"n", "o">>), RunFailed}

DemoAnswer(d, text) ==
    [status |-> 200, body |-> [key |-> AnswerKey(d.template), value |-> text], detail |-> <<>>]

\* call_claude going on to the direct call whatever client.post returned
AfterFacadeFallingThrough(d, answer) ==
    [d EXCEPT !.calls = Append(d.calls, "facade"), !.facade = answer, !.pc = "direct"]

\* call_claude returning the content of a 200 only when its finish_reason is "stop"
AfterFacadeStopOnly(d, answer) ==
    LET called == [d EXCEPT !.calls = Append(d.calls, "facade"), !.facade = answer]
    IN IF answer.kind = "http" /\ answer.status = 200 /\ answer.body.finish_reason = "stop"
       THEN [called EXCEPT !.pc = "done", !.result = answer.body.text,
                           !.response = DemoAnswer(d, answer.body.text)]
       ELSE [called EXCEPT !.pc = "direct"]

\* call_claude from the return of client.post on (lines 48-52): a 200 returns
\* choices[0].message.content; anything else goes on to the direct call
AfterFacade(d, answer) ==
    LET called == [d EXCEPT !.calls = Append(d.calls, "facade"), !.facade = answer]
    IN IF answer.kind = "http" /\ answer.status = 200
       THEN [called EXCEPT !.pc = "done", !.result = answer.body.text,
                           !.response = DemoAnswer(d, answer.body.text)]
       ELSE [called EXCEPT !.pc = "direct"]

\* call_claude from the return of subprocess.run on (lines 62-68), and the
\* except clause of generate_*: an exit of zero returns the stripped output;
\* anything else raises, and the endpoint answers 500
AfterDirect(d, outcome) ==
    LET called == [d EXCEPT !.calls = Append(d.calls, "direct"), !.direct = outcome]
    IN IF outcome.kind = "exit" /\ outcome.rc = 0
       THEN [called EXCEPT !.pc = "done", !.result = Str(Strip(outcome.stdout)),
                           !.response = DemoAnswer(d, Str(Strip(outcome.stdout)))]
       ELSE [called EXCEPT !.pc = "done", !.exc = <<Unreachable>>,
                           !.response = [status |-> 500, body |-> Null,
                                         detail |-> <<FailurePrefix(d.template), Unreachable>>]]

\* generate_* up to its call of call_claude.  An exception raised while the
\* prompt is built is outside the try block: the framework answers it with a
\* bare 500 "Internal Server Error".
AfterRequest(req) ==
    LET built == BuildPrompt(req)
        started == [NoDemo EXCEPT !.template = req.template, !.data = req.data]
    IN IF built.raised
       THEN [started EXCEPT !.pc = "done", !.exc = built.exc,
                            !.response = [status |-> 500, body |-> Null,
                                          detail |-> <<"Internal Server Error">>]]
       ELSE [started EXCEPT !.pc = "facade", !.prompt = built.text]

ProxyUnchanged ==
    UNCHANGED <<call_count, os_environ, child_env, op, request, prompt, invoked,
                proc, cli_response, response, prev, handlers>>

\* POST /api/generate-description, /api/generate-cma, /api/generate-email
DemoPost(req) ==
    /\ demo.pc \in {"idle", "done"}
    /\ demo' = AfterRequest(req)
    /\ ProxyUnchanged

\* the answer to client.post arrives
DemoFacade(answer) ==
    /\ demo.pc = "facade"
    /\ demo' = AfterFacade(demo, answer)
    /\ ProxyUnchanged

\* subprocess.run of the direct tool returns
DemoDirect(outcome) ==
    /\ demo.pc = "direct"
    /\ demo' = AfterDirect(demo, outcome)
    /\ ProxyUnchanged

NextDemo ==
    \/ \E req \in DemoRequests : DemoPost(req)
    \/ \E answer \in FacadeAnswers(demo.prompt) : DemoFacade(answer)
    \/ \E outcome \in DirectOutcomes : DemoDirect(outcome)

SpecDemo == Init /\ [][NextDemo]_vars

---------------------------------------------------------------------------
(* The claims about the demo application *)

FacadeSucceeded == demo.facade.kind = "http" /\ demo.facade.status = 200
DirectSucceeded == demo.direct.kind = "exit" /\ demo.direct.rc = 0

\* C11: a call of call_claude makes at most one request to the Facade and at most
\* one direct call of the tool, in that order; the direct call is made only after
\* the request to the Facade failed; "Unable to reach Claude API" is raised only
\* after both failed; and the call ends by returning a text or by raising that
\* error, with nothing tried again.
C11_TwoLevelFallback ==
    /\ demo.calls \in {<<>>, <<"facade">>, <<"facade", "direct">>}
    /\ Len(demo.calls) = 2 => ~FacadeSucceeded
    /\ demo.exc = <<"Unable to reach Claude API">> =>
          /\ demo.calls = <<"facade", "direct">>
          /\ ~FacadeSucceeded
          /\ ~DirectSucceeded
    /\ (demo.pc = "done" /\ Len(demo.calls) >= 1) =>
          \/ /\ demo.response.status = 200
             /\ demo.exc = <<>>
             /\ FacadeSucceeded \/ DirectSucceeded
          \/ /\ demo.response.status = 500
             /\ demo.exc = <<"Unable to reach Claude API">>

\* C11 witness: the Facade could not be reached, the direct call exited non-zero,
\* and the error was raised after these two calls
C11_Witness ==
    /\ demo.pc = "done"
    /\ demo.calls = <<"facade", "direct">>
    /\ demo.facade.kind = "exception"
    /\ demo.direct.kind = "exit"
    /\ demo.direct.rc = 1
    /\ demo.exc = <<"Unable to reach Claude API">>

\* C12: a request that omits an interpolated field of its template still gets a
\* prompt and goes on to the generation call: no request ends before the
\* backend was called.
C12_MissingFieldsDefaulted ==
    demo.pc = "done" => Len(demo.calls) >= 1

\* the exception text is carried by the detail of the response
CarriesExceptionText(detail, exc) ==
    /\ Len(exc) > 0
    /\ Len(detail) >= Len(exc)
    /\ SubSeq(detail, Len(detail) - Len(exc) + 1, Len(detail)) = exc

\* C13: a request that failed ends with an answer carrying a visible error or
\* with an HTTP 500 whose detail carries the text of the exception.
C13_FailuresSurfaced ==
    (demo.pc = "done" /\ demo.response.status # 200) =>
        /\ demo.response.status = 500
        /\ CarriesExceptionText(demo.response.detail, demo.exc)

\* C14: POST /v1/completions with a body that carries `prompt` is answered with
\* a legacy-completion envelope (object "text_completion", the model of the
\* request or "claude"), and POST /v1/chat/completions with one of object
\* "chat.completion": neither answers a well-formed body with a server error.
C14_PromptBodyServed ==
    /\ (op = "completions" /\ request.prompt.t # "null") =>
          /\ response.status = 200
          /\ response.body.object = "text_completion"
          /\ response.body.model = IF request.model.t = "null" THEN Str(<<"claude">>)
                                   ELSE request.model
    /\ op = "chat" =>
          /\ response.status = 200
          /\ response.body.object = "chat.completion"

\* C15: when the Facade answers 200, call_claude returns the content of the
\* envelope's choice and makes no direct call, whatever the finish_reason; an
\* envelope of finish_reason "error" so gives the "Error: ..." text as the
\* generated text with status 200; the direct call is made only after a status
\* other than 200 or an exception.
C15_FacadeAnswerReturned ==
    /\ FacadeSucceeded =>
          /\ demo.pc = "done"
          /\ demo.calls = <<"facade">>
          /\ demo.result = demo.facade.body.text
          /\ demo.response.status = 200
          /\ demo.response.body.value = demo.facade.body.text
          /\ demo.facade.body.finish_reason = "error" =>
                StartsWith(demo.response.body.value.v, <<"Error: ">>)
    /\ Len(demo.calls) = 2 =>
          demo.facade.kind = "exception" \/ demo.facade.status # 200

\* C15 witness: the Facade's fallback chain failed, its envelope came back with
\* status 200, and the endpoint answered 200 with the "Error: ..." text
C15_Witness ==
    /\ FacadeSucceeded
    /\ demo.facade.body.finish_reason = "error"
    /\ demo.calls = <<"facade">>
    /\ demo.response.status = 200
    /\ demo.response.body.key = "description"
    /\ StartsWith(demo.response.body.value.v, <<"Error: ", "[", "claude failed">>)

---------------------------------------------------------------------------
(* Two create_* calls in flight on one CLIWrapperProxy: the steps of
   create_completion (lines 131-141) and create_chat_completion (lines 169-179)
   taken one at a time.  `self.call_count += 1` is a read of the attribute and a
   write of the sum; the external call follows; the id is formatted from a
   second read of the attribute. *)

Handlers == 1..MaxHandlers

\* a handler that has not started; `disturbed` records that another call wrote
\* the counter between this call's read for the increment and its read for the id
Fresh ==
    [pc |-> "start", kind |-> "none", loaded |-> 0, mine |-> 0, ok |-> FALSE,
     id |-> <<>>, disturbed |-> FALSE]

IdPrefix(kind) == IF kind = "chat" THEN "chatcmpl-" ELSE "clawwork-"

InFlight(hd) == hd.pc \in {"loaded", "incremented", "called"}

RestUnchanged ==
    UNCHANGED <<os_environ, child_env, op, request, prompt, invoked, proc, cli_response,
                response, prev, demo>>

\* the read of self.call_count for `+= 1` (line 131 / line 169)
LoadCounter(h, kind) ==
    /\ handlers[h].pc = "start"
    /\ handlers' = [handlers EXCEPT ![h] = [@ EXCEPT !.pc = "loaded", !.kind = kind,
                                                      !.loaded = call_count]]
    /\ UNCHANGED call_count
    /\ RestUnchanged

\* the write of self.call_count for `+= 1` (line 131 / line 169)
StoreCounter(h) ==
    /\ handlers[h].pc = "loaded"
    /\ call_count' = handlers[h].loaded + 1
    /\ handlers' = [g \in Handlers |->
                      IF g = h
                      THEN [handlers[g] EXCEPT !.pc = "incremented", !.mine = handlers[h].loaded + 1]
                      ELSE IF InFlight(handlers[g])
                           THEN [handlers[g] EXCEPT !.disturbed = TRUE]
                           ELSE handlers[g]]
    /\ RestUnchanged

\* self._run_cli_wrapper(prompt) (line 137 / line 175): the child process runs
\* while other calls go on
ExternalCall(h, ok) ==
    /\ handlers[h].pc = "incremented"
    /\ handlers' = [handlers EXCEPT ![h] = [@ EXCEPT !.pc = "called", !.ok = ok]]
    /\ UNCHANGED call_count
    /\ RestUnchanged

\* the id formatted from the counter as it was read for the increment
ReadLoaded(h) ==
    /\ handlers[h].pc = "called"
    /\ handlers' = [handlers EXCEPT ![h] = [@ EXCEPT !.pc = "done",
                                   !.id = <<IdPrefix(handlers[h].kind), handlers[h].loaded>>]]
    /\ UNCHANGED call_count
    /\ RestUnchanged

\* the read of self.call_count for the id (line 141 / line 179)
ReadCounter(h) ==
    /\ handlers[h].pc = "called"
    /\ handlers' = [handlers EXCEPT ![h] = [@ EXCEPT !.pc = "done",
                                   !.id = <<IdPrefix(handlers[h].kind), call_count>>]]
    /\ UNCHANGED call_count
    /\ RestUnchanged

InitConc ==
    /\ call_count = 0
    /\ os_environ = ProxyEnv
    /\ child_env = NoEnv
    /\ op = "init"
    /\ request = Null
    /\ prompt = Null
    /\ invoked = <<>>
    /\ proc = NoProc
    /\ cli_response = NoCli
    /\ response = NoResponse
    /\ prev = <<>>
    /\ demo = NoDemo
    /\ handlers = [h \in Handlers |-> Fresh]

NextConc ==
    \/ \E h \in Handlers, kind \in {"completion", "chat"} : LoadCounter(h, kind)
    \/ \E h \in Handlers : StoreCounter(h)
    \/ \E h \in Handlers, ok \in BOOLEAN : ExternalCall(h, ok)
    \/ \E h \in Handlers : ReadCounter(h)

SpecConc == InitConc /\ [][NextConc]_vars

Done(h) == handlers[h].pc = "done"

\* C16 as stated: under any interleaving of the steps of the calls, two requests
\* that were served have ids of distinct numeric suffixes, each the value that
\* the request's own increment produced.
C16_DistinctIds ==
    /\ \A h \in Handlers : Done(h) => handlers[h].id[2] = handlers[h].mine
    /\ \A h, g \in Handlers :
          (h # g /\ Done(h) /\ Done(g)) => handlers[h].id[2] # handlers[g].id[2]

\* C16: a request during which no other call wrote the counter, from its own
\* read for the increment to its read for the id, has the value of its own
\* increment as the suffix of its id; and when this is so for every call, the
\* requests served have pairwise distinct suffixes.
C16_UndisturbedIds ==
    /\ \A h \in Handlers :
          (Done(h) /\ ~handlers[h].disturbed) =>
              handlers[h].id = <<IdPrefix(handlers[h].kind), handlers[h].mine>>
    /\ (\A h \in Handlers : ~handlers[h].disturbed) =>
          \A h, g \in Handlers :
              (h # g /\ Done(h) /\ Done(g)) => handlers[h].id[2] # handlers[g].id[2]

\* C16 witness: two requests served, their steps overlapping in time (the second
\* read the counter for its increment before the first read it for its id) and
\* neither disturbed
C16_Witness ==
    /\ Done(1)
    /\ Done(2)
    /\ ~handlers[1].disturbed
    /\ ~handlers[2].disturbed
    /\ handlers[1].id = <<"clawwork-", 1>>
    /\ handlers[2].id = <<"chatcmpl-", 2>>
    /\ handlers[2].loaded = 1

====
